---- MODULE Spec2Model ----
(***************************************************************************)
(* A model of the artifact discovery and naming logic of NIM-LLab          *)
(* (src/lib/model_downloader.py, src/lib/nim_selector.py and              *)
(* src/lib/utility.py).  Python strings are TLA+ strings; the string       *)
(* methods the code uses (endswith, count, split, replace, basename, sort  *)
(* order, regular-expression match) are operators computed character by    *)
(* character.  Each function of the code is exercised by a specification   *)
(* of its own: SpecExtract (extract_gguf_files), SpecConfigs               *)
(* (download_model_configs), SpecScan (scan_local_gguf_files and           *)
(* display_local_gguf_menu), SpecGguf (download_gguf_files), SpecDownloads *)
(* (download_model_configs followed by download_gguf_files), SpecMenu (the *)
(* numbered menus) and SpecProbe (check_service_ready_from_logs).          *)
(***************************************************************************)
EXTENDS Naturals, Integers, Sequences, FiniteSets, TLC

VARIABLES
    ex,     \* the frame of one call of extract_gguf_files
    cfg,    \* the frame of one call of download_model_configs, with the hub and disk it touches
    scan,   \* the work directory, and the frames of scan_local_gguf_files and display_local_gguf_menu
    gguf,   \* the frame of one call of download_gguf_files, with the environment it reads
    menu,   \* one session of a numbered menu: its options, the line last typed, its result
    probe,  \* one call of check_service_ready_from_logs: the clock, the log stream, the buffer
    nim,    \* the frame of one call of select_nim_version
    disk,   \* the configuration files that lie directly in the directories used
    run     \* the script run-gguf.py around its call of download_or_select_gguf_model

vars == <<ex, cfg, scan, gguf, menu, probe, nim, disk, run>>

(***************************************************************************)
(* Bounds of the model.                                                    *)
(***************************************************************************)
\* the longest repository listing list_repo_files returns
MaxRepoFiles == 3
\* the longest listing of a model repository list_repo_files returns
MaxConfigFiles == 4
\* the largest number of directories below the scanned work directory
MaxDirs == 2
\* the largest number of files in the scanned work directory, all directories together
MaxFiles == 3
\* the longest listing of a GGUF repository list_repo_files returns
MaxGgufFiles == 3
\* the largest number of files behind the options of a menu session
MaxMenuFiles == 2
\* the largest number of directories below the work directory of a menu session
MaxMenuDirs == 1
\* the largest number of lines a menu session rejects before the user gets it right
MaxRejected == 2
\* the largest number of tags the registry reports for the image
MaxTags == 3
\* the longest timeout of the readiness probe, in ticks of the clock
MaxTimeout == 2
\* the largest number of chunks the log stream delivers
MaxChunks == 3

(***************************************************************************)
(* Python's str and list operations.                                       *)
(***************************************************************************)
\* the characters of the model in code point order
CharOrder == " ()-./0123456789ABCDEFGHIJKLMNOPQRSTUVWXYZ_abcdefghijklmnopqrstuvwxyz"

Char(s, i) == SubSeq(s, i, i)

\* ord(c), up to an order-preserving renumbering
Ord(c) == CHOOSE i \in 1..Len(CharOrder) : Char(CharOrder, i) = c

\* s.endswith(suffix)
EndsWith(s, suffix) ==
    /\ Len(s) >= Len(suffix)
    /\ SubSeq(s, Len(s) - Len(suffix) + 1, Len(s)) = suffix

\* s.startswith(prefix)
StartsWith(s, prefix) == Len(s) >= Len(prefix) /\ SubSeq(s, 1, Len(prefix)) = prefix

\* s.count(c) for a one-character c
Count(s, c) == Cardinality({i \in 1..Len(s) : Char(s, i) = c})

\* c in s, for a one-character c
Contains(s, c) == \E i \in 1..Len(s) : Char(s, i) = c

\* a < b for two str: code point by code point, a proper prefix first
RECURSIVE StrLess(_, _)
StrLess(a, b) ==
    IF Len(b) = 0 THEN FALSE
    ELSE IF Len(a) = 0 THEN TRUE
    ELSE IF Head(a) = Head(b) THEN StrLess(Tail(a), Tail(b))
    ELSE Ord(Head(a)) < Ord(Head(b))

\* one step of list.sort(): x put into the sorted list l, after its equals
RECURSIVE Insert(_, _)
Insert(x, l) ==
    IF l = <<>> THEN <<x>>
    ELSE IF StrLess(x, Head(l)) THEN <<x>> \o l
    ELSE <<Head(l)>> \o Insert(x, Tail(l))

\* list.sort() of a list of str
RECURSIVE Sorted(_)
Sorted(l) == IF l = <<>> THEN <<>> ELSE Insert(l[Len(l)], Sorted(SubSeq(l, 1, Len(l) - 1)))

\* the position of the last '/' of p, 0 when it has none
LastSlash(p) ==
    IF Contains(p, "/") THEN CHOOSE i \in 1..Len(p) :
                               /\ Char(p, i) = "/"
                               /\ \A j \in (i + 1)..Len(p) : Char(p, j) # "/"
    ELSE 0

\* os.path.basename(p)
basename(p) == SubSeq(p, LastSlash(p) + 1, Len(p))

\* c.isdigit() for a one-character c
IsDigit(c) == c \in {"0", "1", "2", "3", "4", "5", "6", "7", "8", "9"}

\* s is one or more digits
AllDigits(s) == Len(s) >= 1 /\ \A i \in 1..Len(s) : IsDigit(Char(s, i))

\* the length of the longest run of digits that ends s
RECURSIVE DigitRun(_)
DigitRun(s) ==
    IF Len(s) > 0 /\ IsDigit(Char(s, Len(s)))
    THEN 1 + DigitRun(SubSeq(s, 1, Len(s) - 1))
    ELSE 0

\* s without its last n characters
DropLast(s, n) == SubSeq(s, 1, Len(s) - n)

\* int(s) for a str of decimal digits
RECURSIVE ParseDigits(_)
ParseDigits(s) ==
    IF Len(s) = 0 THEN 0
    ELSE 10 * ParseDigits(DropLast(s, 1)) + (Ord(Char(s, Len(s))) - Ord("0"))

\* str(n) for n >= 0
RECURSIVE str(_)
str(n) ==
    IF n < 10 THEN Char("0123456789", n + 1)
    ELSE str(n \div 10) \o Char("0123456789", (n % 10) + 1)

\* the lists without repetition, of at most n members of S
ListsOf(S, n) ==
    {l \in UNION {[1..k -> S] : k \in 0..n} :
        \A i, j \in 1..Len(l) : i # j => l[i] # l[j]}

(***************************************************************************)
(* extract_gguf_files                                                      *)
(***************************************************************************)
\* a filter that takes '.gguf' anywhere in the path
is_gguf_contains(f) == \E i \in 1..Len(f) : EndsWith(SubSeq(f, 1, i), ".gguf")
\* the filter of the first comprehension: f.endswith('.gguf')
is_gguf(f) == EndsWith(f, ".gguf")

\* re.match(r'^(.*)-\d+-of-\d+\.gguf$', filename): whether it matches and group(1).
\* The pattern is anchored at both ends, so the match is read from the end:
\* '.gguf', a run of digits, '-of-', a run of digits, '-', and the rest is (.*).
multipart_match(filename) ==
    LET s1 == DropLast(filename, Len(".gguf"))
        n2 == DigitRun(s1)
        s2 == DropLast(s1, n2)
        s3 == DropLast(s2, Len("-of-"))
        n1 == DigitRun(s3)
        s4 == DropLast(s3, n1)
        ok == /\ EndsWith(filename, ".gguf")
              /\ n2 >= 1
              /\ EndsWith(s2, "-of-")
              /\ n1 >= 1
              /\ EndsWith(s4, "-")
    IN  [matched |-> ok, group1 |-> IF ok THEN DropLast(s4, 1) ELSE ""]

\* the key computed from the whole path
key_filename_fullpath(file) == file
\* the name the key is computed from: os.path.basename(file)
key_filename(file) == basename(file)

\* the key of grouped_files that a file is appended under
group_key(file) ==
    LET filename == key_filename(file)
        m == multipart_match(filename)
    IN  IF m.matched THEN m.group1 \o ".gguf" ELSE filename

\* extract_gguf_files with a key made for every listed file, filtered or not
extract_gguf_files_allkeys(repo_files) ==
    LET gguf_files == SelectSeq(repo_files, is_gguf)
        keys == {group_key(repo_files[i]) : i \in 1..Len(repo_files)}
        under(k) == LET same(f) == group_key(f) = k IN SelectSeq(gguf_files, same)
    IN  [k \in keys |-> Sorted(under(k))]
\* the dict returned: each key with its files in listing order, then sorted
extract_gguf_files(repo_files) ==
    LET gguf_files == SelectSeq(repo_files, is_gguf)
        keys == {group_key(gguf_files[i]) : i \in 1..Len(gguf_files)}
        under(k) == LET same(f) == group_key(f) = k IN SelectSeq(gguf_files, same)
    IN  [k \in keys |-> Sorted(under(k))]

\* the paths a listing of a GGUF repository is drawn from
ExtractPaths ==
    {"single.gguf", "d/single.gguf", "m.gguf", "m.gguf.txt", "README.md",
     "m-00001-of-00003.gguf", "m-00002-of-00003.gguf", "m-00003-of-00003.gguf",
     "d/m-00001-of-00003.gguf", "m-2-of-10.gguf", "m-10-of-10.gguf",
     "m-1-of-x.gguf"}

ExIdle == [pc |-> "idle", repo_files |-> <<>>, result |-> <<>>]

ExInit == ex \in {[pc |-> "call", repo_files |-> l, result |-> <<>>] :
                    l \in ListsOf(ExtractPaths, MaxRepoFiles)}

\* one call of extract_gguf_files(repo_files), to its return
ExtractGgufFiles ==
    /\ ex.pc = "call"
    /\ ex' = [ex EXCEPT !.pc = "returned", !.result = extract_gguf_files(ex.repo_files)]
    /\ UNCHANGED <<cfg, scan, gguf, menu, probe, nim, disk, run>>

(***************************************************************************)
(* download_model_configs                                                  *)
(***************************************************************************)
\* the base working directory the caller passes
base_work_dir == "w"

\* os.path.join(a, b) for a relative b
path_join(a, b) ==
    IF StartsWith(b, "/") THEN b
    ELSE IF a = "" \/ EndsWith(a, "/") THEN a \o b
    ELSE a \o "/" \o b

\* s.strip(), the white space of the model being the blank
RECURSIVE lstrip(_)
lstrip(s) == IF Len(s) > 0 /\ Head(s) = " " THEN lstrip(Tail(s)) ELSE s
RECURSIVE rstrip(_)
rstrip(s) == IF Len(s) > 0 /\ Char(s, Len(s)) = " " THEN rstrip(DropLast(s, 1)) ELSE s
strip(s) == rstrip(lstrip(s))

\* s.lower(): every capital letter replaced by its small letter
UpperCase == "ABCDEFGHIJKLMNOPQRSTUVWXYZ"
LowerCase == "abcdefghijklmnopqrstuvwxyz"
lower_char(c) ==
    IF \E i \in 1..Len(UpperCase) : Char(UpperCase, i) = c
    THEN Char(LowerCase, CHOOSE i \in 1..Len(UpperCase) : Char(UpperCase, i) = c)
    ELSE c
RECURSIVE lower(_)
lower(s) == IF Len(s) = 0 THEN s ELSE lower_char(Head(s)) \o lower(Tail(s))

required_files ==
    <<"config.json", "tokenizer.json", "tokenizer_config.json", "generation_config.json">>

\* a key that compares the length first
match_key_len_first(x) == <<Len(x), Count(x, "/")>>
\* the key of min(): lambda x: (x.count('/'), len(x))
match_key(x) == <<Count(x, "/"), Len(x)>>

\* a < b for two tuples of two int
PairLess(a, b) == a[1] < b[1] \/ (a[1] = b[1] /\ a[2] < b[2])

\* min(matching_files, key=...): the first member with the least key
best_match(matching_files) ==
    LET least(i) == \A j \in 1..Len(matching_files) :
                        ~PairLess(match_key(matching_files[j]), match_key(matching_files[i]))
        first == CHOOSE i \in 1..Len(matching_files) :
                    least(i) /\ \A j \in 1..(i - 1) : ~least(j)
    IN  matching_files[first]

\* [f for f in repo_files if f.endswith(required_file)]
matching(repo_files, required_file) ==
    LET ends(f) == EndsWith(f, required_file) IN SelectSeq(repo_files, ends)

\* the loop over required_files from its k-th member on: found_files when it
\* ends, and the required file whose absence raised (none: "")
RECURSIVE find_required(_, _, _)
find_required(repo_files, k, found_files) ==
    IF k > Len(required_files) THEN [found_files |-> found_files, raised |-> ""]
    ELSE LET required_file == required_files[k]
             matching_files == matching(repo_files, required_file)
         IN  IF matching_files # <<>>
             THEN find_required(repo_files, k + 1,
                                found_files @@ (required_file :> best_match(matching_files)))
             ELSE [found_files |-> found_files, raised |-> required_file]

\* [f for f in required_files if f not in found_files]
missing_of(found_files) ==
    LET absent(f) == f \notin DOMAIN found_files IN SelectSeq(required_files, absent)

\* what the user may type at the repository prompt
TypedRepos == {"", " ", "m", "o/m", " o/m ", "o/m/x"}

\* what the user may type at a (y/n) prompt
TypedAnswers == {"y", "Y", " y ", "n", ""}

\* the paths a listing of a model repository is drawn from
ConfigPaths ==
    {"config.json", "a/config.json", "tokenizer.json", "a/b/tokenizer.json",
     "tokenizer_config.json", "generation_config.json", "ab/config.json", "README.md"}

\* what list_repo_files does: raise RepositoryNotFoundError, raise another
\* Exception, or return a listing
HubAnswers ==
    {[kind |-> "not_found", files |-> <<>>], [kind |-> "error", files |-> <<>>]}
    \cup {[kind |-> "files", files |-> l] : l \in ListsOf(ConfigPaths, MaxConfigFiles)}

\* os.environ["NIM_MODEL_DIR"] as download_model_configs sets it:
\* model_name = model_repo.split("/")[-1] below the work directory
nim_model_dir_of(model_repo) == path_join(base_work_dir, basename(model_repo))

\* The configuration files on the disk, as far as the functions look at them:
\* the files directly in /tmp/gguf_config_temp, directly in NIM_MODEL_DIR and
\* directly in the final model directory.  A file saved below a
\* sub-directory is in none of the three sets.
DiskFresh == [temp |-> {}, nim_dir |-> {}, final |-> {}]

\* the disk after download_model_configs saved the four files of a repository
\* that holds them at its root
DiskAfterConfigs ==
    [temp |-> {}, nim_dir |-> {required_files[i] : i \in DOMAIN required_files}, final |-> {}]

\* A specification that does not follow the files starts from NoDisk, and
\* every write leaves NoDisk as it is.
NoDisk == [pc |-> "idle"]

\* hf_hub_download(filename=actual_path, local_dir=dir) saves the file at
\* dir/actual_path: directly in dir only for a path without '/'
saved_directly(actual_path) == IF Contains(actual_path, "/") THEN {} ELSE {actual_path}

\* the disk after hf_hub_download saved actual_path below config_temp_dir
after_config_fetch(d, actual_path) ==
    IF d = NoDisk THEN d ELSE [d EXCEPT !.temp = d.temp \cup saved_directly(actual_path)]

\* the disk after copytree(config_temp_dir, NIM_MODEL_DIR, dirs_exist_ok=True)
\* and the removal of the files directly in config_temp_dir
after_copytree(d) ==
    IF d = NoDisk THEN d ELSE [d EXCEPT !.nim_dir = d.nim_dir \cup d.temp, !.temp = {}]

\* the disk after the loop over the four names at the end of
\* download_gguf_files: a name is copied if it exists directly in NIM_MODEL_DIR
after_config_copy(d) ==
    IF d = NoDisk THEN d
    ELSE [d EXCEPT !.final = d.final \cup
                     ({required_files[i] : i \in DOMAIN required_files} \cap d.nim_dir)]

CfgIdle == [pc |-> "idle"]

\* the frame on entry: nothing typed yet, no environment variable set
CfgStart ==
    [pc |-> "prompt",
     model_repo |-> "",
     outcome |-> "",            \* how the last pass of the while loop went
     interrupted_at |-> "",     \* where the function was blocked when Ctrl-C came
     temp_dir |-> FALSE,        \* whether /tmp/gguf_config_temp was made
     repo_files |-> <<>>,
     found_files |-> <<>>,
     missing_files |-> <<>>,    \* the list printed as 'Required files not found'
     asked |-> "",              \* the (y/n) prompt the function waits at
     attempted |-> <<>>,        \* the files hf_hub_download was called for in this pass
     downloaded_files |-> <<>>,
     NIM_MODEL_DIR |-> "",
     BASE_MODEL_REPO |-> "",
     result |-> "running"]

CfgInit == cfg = CfgStart

\* The head of a pass of the while loop: the input at the repository prompt,
\* the two format tests, and for an accepted identifier the temporary
\* directory and the fresh found_files and repo_files, up to the call of
\* list_repo_files.
EnterModelRepo ==
    /\ cfg.pc = "prompt"
    /\ \E typed \in TypedRepos :
        LET model_repo == strip(typed)
        IN  cfg' =
              IF model_repo = ""
                THEN [cfg EXCEPT !.model_repo = model_repo, !.outcome = "empty"]
              ELSE IF ~Contains(model_repo, "/")
                THEN [cfg EXCEPT !.model_repo = model_repo, !.outcome = "format"]
              ELSE [cfg EXCEPT !.model_repo = model_repo, !.outcome = "listing",
                               !.temp_dir = TRUE, !.found_files = <<>>,
                               !.repo_files = <<>>, !.pc = "list"]
    /\ UNCHANGED <<ex, scan, gguf, menu, probe, nim, disk, run>>

\* list_repo_files(repo_id=model_repo) answers, and the pass goes on with the
\* search for the required files, up to the next prompt or the first download.
ListRepoFiles ==
    /\ cfg.pc = "list"
    /\ \E hub \in HubAnswers :
        LET f == find_required(hub.files, 1, <<>>)
            missing_files == missing_of(f.found_files)
            listed == [cfg EXCEPT !.repo_files = hub.files, !.found_files = f.found_files]
        IN  cfg' =
              IF hub.kind = "not_found"
                THEN [cfg EXCEPT !.outcome = "not_found", !.pc = "prompt"]
              ELSE IF hub.kind = "error"
                THEN [cfg EXCEPT !.outcome = "access_error", !.pc = "prompt"]
              ELSE IF f.raised # ""
                \* raise Exception(f"{required_file} not found anywhere in repository"),
                \* caught by 'except Exception' around the listing: continue
                THEN [listed EXCEPT !.outcome = "required_not_found", !.pc = "prompt"]
              ELSE IF missing_files # <<>>
                THEN [listed EXCEPT !.outcome = "missing", !.missing_files = missing_files,
                                    !.asked = "missing", !.pc = "ask_retry"]
              ELSE [listed EXCEPT !.outcome = "found", !.downloaded_files = <<>>,
                                  !.attempted = <<>>, !.pc = "download"]
    /\ UNCHANGED <<ex, scan, gguf, menu, probe, nim, disk, run>>

\* the loop over the files goes on after a fetch that raised
after_failed_fetch_goes_on(frame) == frame
\* except Exception of a fetch: the error is printed and the function asks
\* 'Would you like to try a different model? (y/n)'
after_failed_fetch(frame) == [frame EXCEPT !.asked = "download", !.pc = "ask_retry"]

\* One pass of the loop over found_files.items(): hf_hub_download of the next
\* file returns or raises; after the last file the else branch of the loop
\* runs: the environment variables, the copy to NIM_MODEL_DIR, the return.
DownloadConfigFile ==
    /\ cfg.pc = "download"
    /\ \E downloaded, copied \in BOOLEAN :
        LET required_file == required_files[Len(cfg.downloaded_files) + 1]
            actual_path == cfg.found_files[required_file]
            downloaded_files == Append(cfg.downloaded_files, actual_path)
            called == [cfg EXCEPT !.attempted = Append(cfg.attempted, actual_path)]
            done == [called EXCEPT !.downloaded_files = downloaded_files,
                                !.NIM_MODEL_DIR = nim_model_dir_of(cfg.model_repo),
                                !.BASE_MODEL_REPO = cfg.model_repo]
            fetched == after_config_fetch(disk, actual_path)
        IN  IF ~downloaded
              THEN /\ cfg' = after_failed_fetch(called)
                   /\ UNCHANGED <<disk, run>>
            ELSE IF Len(downloaded_files) < Len(required_files)
              THEN /\ cfg' = [called EXCEPT !.downloaded_files = downloaded_files]
                   /\ disk' = fetched
            ELSE IF ~copied
              \* os.makedirs or shutil.copytree raised: 'except Exception' of the outer try
              THEN /\ cfg' = [done EXCEPT !.asked = "unexpected", !.pc = "ask_retry"]
                   /\ disk' = fetched
            \* copytree(config_temp_dir, NIM_MODEL_DIR, dirs_exist_ok=True), then
            \* the files directly in config_temp_dir are removed
            ELSE /\ cfg' = [done EXCEPT !.result = "config_temp_dir", !.pc = "returned"]
                 /\ disk' = after_copytree(fetched)
    /\ UNCHANGED <<ex, scan, gguf, menu, probe, nim, run>>

\* The answer to 'Would you like to try a different model? (y/n)': 'y' goes
\* round the while loop, anything else returns None.  The lists of the pass
\* that ended are dead from here on: the next pass assigns them before it
\* reads them.
AnswerRetry ==
    /\ cfg.pc = "ask_retry"
    /\ \E typed \in TypedAnswers :
        LET retry == lower(strip(typed))
        IN  cfg' =
              IF retry # "y"
                THEN [cfg EXCEPT !.result = "None", !.pc = "returned", !.asked = ""]
              ELSE [cfg EXCEPT !.pc = "prompt", !.asked = "", !.attempted = <<>>,
                               !.downloaded_files = <<>>, !.missing_files = <<>>]
    /\ UNCHANGED <<ex, scan, gguf, menu, probe, nim, disk, run>>

\* Ctrl-C while download_model_configs is blocked.  The input of the
\* repository (line 34) stands before the try, and the input of line 150
\* inside the handler of 'except Exception': there KeyboardInterrupt leaves the
\* function.  Everywhere else (listing, download, the (y/n) prompts of lines
\* 102 and 122) 'except KeyboardInterrupt' of the outer try breaks the loop
\* and the function returns None.  Either way the frame is left: of its
\* locals only the place of the interrupt is kept.
InterruptConfigs ==
    /\ cfg.pc \in {"prompt", "list", "download", "ask_retry"}
    /\ LET left == [CfgStart EXCEPT !.outcome = "interrupted", !.interrupted_at = cfg.pc,
                                    !.asked = cfg.asked,
                                    !.NIM_MODEL_DIR = cfg.NIM_MODEL_DIR,
                                    !.BASE_MODEL_REPO = cfg.BASE_MODEL_REPO]
       IN  cfg' =
             IF cfg.pc = "prompt" \/ (cfg.pc = "ask_retry" /\ cfg.asked = "unexpected")
               THEN [left EXCEPT !.result = "KeyboardInterrupt", !.pc = "raised"]
             ELSE [left EXCEPT !.result = "None", !.pc = "returned"]
    /\ UNCHANGED <<ex, scan, gguf, menu, probe, nim, disk, run>>

(***************************************************************************)
(* scan_local_gguf_files and display_local_gguf_menu                       *)
(***************************************************************************)
\* A directory below the work directory is the sequence of names that leads
\* to it, the work directory itself the empty sequence.
DirNames == {"a", "b", "Root directory"}
FileNames == {"w.gguf", "v.gguf", "n.txt"}

\* the sets of directories a work directory may hold: itself and at most n more
RECURSIVE TreesUpTo(_)
TreesUpTo(n) ==
    IF n = 0 THEN {{<<>>}}
    ELSE TreesUpTo(n - 1) \cup
         UNION {{T \cup {Append(d, name)} : d \in T, name \in DirNames} : T \in TreesUpTo(n - 1)}

Parent(d) == SubSeq(d, 1, Len(d) - 1)

\* '/'.join(d)
RECURSIVE join(_)
join(d) == IF Len(d) = 1 THEN d[1] ELSE join(Parent(d)) \o "/" \o d[Len(d)]

\* the root that os.walk yields for directory d
walk_root(d) == IF d = <<>> THEN base_work_dir ELSE path_join(base_work_dir, join(d))

\* os.path.relpath(root, base_work_dir)
relpath(d) == IF d = <<>> THEN "." ELSE join(d)

\* the files that os.walk yields for directory d: the names of its direct children
walk_files(files, d) == {fd[2] : fd \in {x \in files : x[1] = d}}

\* The orders in which os.walk(top) may yield the directories at and below d:
\* d first, then the walk of each subdirectory, the subdirectories in the
\* order the operating system lists them.
RECURSIVE Walks(_, _)
RECURSIVE WalksOfAll(_, _)
Walks(T, d) == {<<d>> \o w : w \in WalksOfAll(T, {c \in T : c # <<>> /\ Parent(c) = d})}
WalksOfAll(T, C) ==
    IF C = {} THEN {<<>>}
    ELSE UNION {{w1 \o w2 : w1 \in Walks(T, c), w2 \in WalksOfAll(T, C \ {c})} : c \in C}

\* [f for f in files if f.endswith('.gguf')]
gguf_files_of(files, d) == {f \in walk_files(files, d) : EndsWith(f, ".gguf")}

\* the display name of a directory with n GGUF files
display_name(d, n) ==
    IF relpath(d) = "." THEN "Root directory (" \o str(n) \o " GGUF files)"
    ELSE relpath(d) \o " (" \o str(n) \o " GGUF files)"

\* local_models[display_name] = root
dict_set(dict, key, value) == [k \in DOMAIN dict \cup {key} |-> IF k = key THEN value ELSE dict[k]]

\* the loop over os.walk from the k-th directory of the walk on
RECURSIVE scan_loop(_, _, _, _)
scan_loop(files, walk, k, local_models) ==
    IF k > Len(walk) THEN local_models
    ELSE LET root == walk[k]
             gguf_files == gguf_files_of(files, root)
         IN  IF gguf_files # {}
             THEN scan_loop(files, walk, k + 1,
                            dict_set(local_models,
                                     display_name(root, Cardinality(gguf_files)),
                                     walk_root(root)))
             ELSE scan_loop(files, walk, k + 1, local_models)

\* sorted(local_models.items()): the keys are different, so their order decides
RECURSIVE sorted_keys(_)
sorted_keys(dict) ==
    IF DOMAIN dict = {} THEN <<>>
    ELSE LET least == CHOOSE k \in DOMAIN dict : \A j \in DOMAIN dict : ~StrLess(j, k)
         IN  <<least>> \o sorted_keys([k \in DOMAIN dict \ {least} |-> dict[k]])

\* int(choice): the value, or -1 for the ValueError of a str that is no number
\* (the inputs of the model carry no sign)
py_int(choice) == IF AllDigits(choice) THEN ParseDigits(choice) ELSE -1

(***************************************************************************)
(* The numbered menus: display_gguf_menu, display_local_gguf_menu and      *)
(* display_versions_menu (src/lib/nim_selector.py).                        *)
(***************************************************************************)
\* the key of sorted(gguf_groups.items(), key=lambda x: (len(x[1]), x[0])):
\* fewer files first, then the display name
item_less(gguf_groups, a, b) ==
    \/ Len(gguf_groups[a]) < Len(gguf_groups[b])
    \/ Len(gguf_groups[a]) = Len(gguf_groups[b]) /\ StrLess(a, b)

RECURSIVE sorted_from(_, _)
sorted_from(gguf_groups, keys) ==
    IF keys = {} THEN <<>>
    ELSE LET first == CHOOSE k \in keys : \A o \in keys \ {k} : item_less(gguf_groups, k, o)
         IN  <<first>> \o sorted_from(gguf_groups, keys \ {first})

\* sorted_items of display_gguf_menu: the display names in the order of the menu
sorted_items(gguf_groups) == sorted_from(gguf_groups, DOMAIN gguf_groups)

\* the option one before the one asked for
selected_item_before(items, choice_num) == items[IF choice_num > 1 THEN choice_num - 1 ELSE Len(items)]
\* sorted_items[choice_num - 1] of a list Python counts from 0
selected_item(items, choice_num) == items[choice_num]

\* the answers of a menu to one typed line: it asks again, or it returns
MenuAgain == [returns |-> FALSE, name |-> "", files |-> <<>>]
MenuReturn(name, files) == [returns |-> TRUE, name |-> name, files |-> files]

\* one pass of the while loop of display_gguf_menu; (None, None) is the name "None"
display_gguf_menu_choice(gguf_groups, typed) ==
    LET choice == strip(typed)
        items == sorted_items(gguf_groups)
        choice_num == py_int(choice)
    IN  IF lower(choice) = "q" THEN MenuReturn("None", <<>>)
        ELSE IF choice_num = -1 THEN MenuAgain                  \* ValueError
        ELSE IF 1 <= choice_num /\ choice_num <= Len(items)
          THEN MenuReturn(selected_item(items, choice_num),
                          gguf_groups[selected_item(items, choice_num)])
        ELSE MenuAgain

\* one pass of the while loop of display_local_gguf_menu
display_local_gguf_menu_choice(local_models, typed) ==
    LET choice == strip(typed)
        items == sorted_keys(local_models)
        download_option == Len(items) + 1
        choice_num == py_int(choice)
    IN  IF lower(choice) = "q" THEN MenuReturn("None", <<>>)
        ELSE IF choice_num = -1 THEN MenuAgain                  \* ValueError
        ELSE IF 1 <= choice_num /\ choice_num <= Len(items)
          THEN MenuReturn(local_models[selected_item(items, choice_num)], <<>>)
        ELSE IF choice_num = download_option THEN MenuReturn("download_new", <<>>)
        ELSE MenuAgain

\* one pass of the while loop of display_versions_menu; sys.exit(0) is the name "exit"
display_versions_menu_choice(versions, typed) ==
    LET choice == strip(typed)
        choice_num == py_int(choice)
    IN  IF lower(choice) = "q" THEN MenuReturn("exit", <<>>)
        ELSE IF choice_num = -1 THEN MenuAgain                  \* ValueError
        ELSE IF 1 <= choice_num /\ choice_num <= Len(versions)
          THEN MenuReturn(selected_item(versions, choice_num), <<>>)
        ELSE MenuAgain

(***************************************************************************)
(* The scan and the local menu as download_or_select_gguf_model runs them.  *)
(***************************************************************************)
\* what the user may type at the menu
TypedChoices == {"q", "Q", "x", "", " 1 "} \cup {str(n) : n \in 0..(MaxDirs + 3)}

ScanIdle == [pc |-> "idle"]

\* the work directories of the model: absent, or a tree of directories and files
ScanInit ==
    \E exists \in BOOLEAN :
        \E T \in (IF exists THEN TreesUpTo(MaxDirs) ELSE {{}}) :
            \E files \in {F \in SUBSET (T \X FileNames) : Cardinality(F) <= MaxFiles} :
                scan = [pc |-> "call", exists |-> exists, dirs |-> T, files |-> files,
                        local_models |-> <<>>, selected |-> "running"]

\* one call of scan_local_gguf_files(base_work_dir), to its return
ScanLocalGgufFiles ==
    /\ scan.pc = "call"
    /\ IF ~scan.exists
       THEN scan' = [scan EXCEPT !.pc = "scanned", !.local_models = <<>>]
       ELSE \E walk \in Walks(scan.dirs, <<>>) :
                scan' = [scan EXCEPT !.pc = "scanned",
                                     !.local_models = scan_loop(scan.files, walk, 1, <<>>)]
    /\ UNCHANGED <<ex, cfg, gguf, menu, probe, nim, disk, run>>

\* an empty mapping shown as a menu of the one option 'Choose new from HF'
empty_menu_prompts(frame) == [frame EXCEPT !.pc = "menu"]
\* display_local_gguf_menu with an empty mapping: 'download_new' at once
empty_menu(frame) == [frame EXCEPT !.pc = "returned", !.selected = "download_new"]

\* display_local_gguf_menu(local_models) up to its first prompt
DisplayLocalGgufMenu ==
    /\ scan.pc = "scanned"
    /\ scan' = IF scan.local_models = <<>> THEN empty_menu(scan)
               ELSE [scan EXCEPT !.pc = "menu"]
    /\ UNCHANGED <<ex, cfg, gguf, menu, probe, nim, disk, run>>

\* one line typed at the prompt of display_local_gguf_menu
LocalMenuChoice ==
    /\ scan.pc = "menu"
    /\ \E typed \in TypedChoices :
        LET answer == display_local_gguf_menu_choice(scan.local_models, typed)
        IN  scan' =
              IF answer.returns
                THEN [scan EXCEPT !.pc = "returned", !.selected = answer.name]
              ELSE scan
    /\ UNCHANGED <<ex, cfg, gguf, menu, probe, nim, disk, run>>


(***************************************************************************)
(* download_gguf_files: the directory of a variant.                        *)
(***************************************************************************)
\* str.replace(old, ""): every occurrence of old is taken out, left to right
RECURSIVE remove_all(_, _)
remove_all(s, old) ==
    IF Len(s) = 0 THEN s
    ELSE IF StartsWith(s, old) THEN remove_all(SubSeq(s, Len(old) + 1, Len(s)), old)
    ELSE SubSeq(s, 1, 1) \o remove_all(SubSeq(s, 2, Len(s)), old)

\* the index of the first sep in s, 0 when there is none
RECURSIVE find(_, _, _)
find(s, sep, i) ==
    IF i > Len(s) THEN 0 ELSE IF Char(s, i) = sep THEN i ELSE find(s, sep, i + 1)

\* str.split(sep) for a separator of one character
RECURSIVE split(_, _)
split(s, sep) ==
    LET i == find(s, sep, 1)
    IN  IF i = 0 THEN <<s>>
        ELSE <<SubSeq(s, 1, i - 1)>> \o split(SubSeq(s, i + 1, Len(s)), sep)

\* part.startswith('Q') and ('_' in part or part[1:].isdigit())
looks_like_quantization(part) ==
    StartsWith(part, "Q") /\ (Contains(part, "_") \/ AllDigits(SubSeq(part, 2, Len(part))))

\* the loop read from the first part to the last
RECURSIVE first_quantization_forward(_, _, _)
first_quantization_forward(quant_parts, i, quantization) ==
    IF i = 0 THEN quantization
    ELSE IF looks_like_quantization(quant_parts[Len(quant_parts) + 1 - i])
      THEN quant_parts[Len(quant_parts) + 1 - i]
    ELSE first_quantization_forward(quant_parts, i - 1, quantization)

\* for part in reversed(quant_parts): the first part that looks like a
\* quantization, from index i down; quantization as it was when none does
RECURSIVE first_quantization(_, _, _)
first_quantization(quant_parts, i, quantization) ==
    IF i = 0 THEN quantization
    ELSE IF looks_like_quantization(quant_parts[i]) THEN quant_parts[i]
    ELSE first_quantization(quant_parts, i - 1, quantization)

\* quantization of download_gguf_files, from the display name of the menu
quantization_of(selected_display) ==
    LET quantization == remove_all(selected_display, ".gguf")
        quant_parts == split(quantization, "-")
    IN  IF Contains(quantization, "-")
        THEN first_quantization(quant_parts, Len(quant_parts), quantization)
        ELSE quantization

\* gguf_repo.split("/")[0]
gguf_author_of(gguf_repo) == split(gguf_repo, "/")[1]

\* f"{gguf_author}-{quantization}"
gguf_variant_of(gguf_repo, selected_display) ==
    gguf_author_of(gguf_repo) \o "-" \o quantization_of(selected_display)

\* the variant directly below the work directory
final_model_dir_flat(model_name, gguf_repo, selected_display) ==
    path_join(base_work_dir, gguf_variant_of(gguf_repo, selected_display))
\* os.path.join(base_work_dir, model_name, gguf_variant)
final_model_dir_of(model_name, gguf_repo, selected_display) ==
    path_join(path_join(base_work_dir, model_name),
              gguf_variant_of(gguf_repo, selected_display))

\* the paths a GGUF repository may list
GgufPaths ==
    {"model-Q4_K_M.gguf", "m-Q8.gguf", "Q4_0-Q8-x.gguf", "plain.gguf", "a-Qx.gguf",
     "a.gguf-b.gguf", "m-Q5_K-00001-of-00002.gguf", "m-Q5_K-00002-of-00002.gguf",
     "README.md"}

\* the answers of list_repo_files to a GGUF repository
GgufHubAnswers ==
    {[kind |-> "not_found", files |-> <<>>], [kind |-> "error", files |-> <<>>]}
    \cup {[kind |-> "files", files |-> l] : l \in ListsOf(GgufPaths, MaxGgufFiles)}

\* what the user may type at the prompt of the GGUF repository
TypedGgufRepos == {"", "m", "bartowski/Llama-3.2-3B-Instruct-GGUF", " o/g ", "o/g/x"}

\* the model repositories download_model_configs may have returned for
BaseModelRepos == {"meta-llama/Llama-3.2-3B-Instruct", "o/m", "o/m/x"}

GgufIdle == [pc |-> "idle"]

\* The frame on entry, as download_or_select_gguf_model calls it after
\* download_model_configs returned a directory: model_name is
\* os.path.basename(os.environ["NIM_MODEL_DIR"]).
GgufStart(NIM_MODEL_DIR, BASE_MODEL_REPO) ==
    [pc |-> "prompt",
     NIM_MODEL_DIR |-> NIM_MODEL_DIR,
     BASE_MODEL_REPO |-> BASE_MODEL_REPO,
     model_name |-> basename(NIM_MODEL_DIR),
     gguf_repo |-> "",
     outcome |-> "",
     interrupted_at |-> "",
     gguf_groups |-> <<>>,
     selected_display |-> "",
     selected_files |-> <<>>,
     quantization |-> "",
     gguf_variant |-> "",
     final_model_dir |-> "",
     attempted |-> <<>>,
     downloaded_files |-> <<>>,
     asked |-> "",
     result |-> "running"]

GgufInit ==
    \E model_repo \in BaseModelRepos :
        gguf = GgufStart(nim_model_dir_of(model_repo), model_repo)

\* the head of a pass of the while loop: the input and the format test
EnterGgufRepo ==
    /\ gguf.pc = "prompt"
    /\ \E typed \in TypedGgufRepos :
        LET gguf_repo == strip(typed)
        IN  gguf' =
              IF ~Contains(gguf_repo, "/")
                THEN [gguf EXCEPT !.gguf_repo = gguf_repo, !.outcome = "format"]
              ELSE [gguf EXCEPT !.gguf_repo = gguf_repo, !.outcome = "listing",
                                !.pc = "list"]
    /\ UNCHANGED <<ex, cfg, scan, menu, probe, nim, disk, run>>

\* list_repo_files(repo_id=gguf_repo) answers; extract_gguf_files groups the
\* listing; the pass goes on to the menu or to the (y/n) prompt of an empty result
ListGgufRepo ==
    /\ gguf.pc = "list"
    /\ \E hub \in GgufHubAnswers :
        LET gguf_groups == extract_gguf_files(hub.files)
        IN  gguf' =
              IF hub.kind = "not_found"
                THEN [gguf EXCEPT !.outcome = "not_found", !.pc = "prompt"]
              ELSE IF hub.kind = "error"
                THEN [gguf EXCEPT !.outcome = "access_error", !.pc = "prompt"]
              ELSE IF gguf_groups = <<>>
                THEN [gguf EXCEPT !.outcome = "no_gguf", !.gguf_groups = gguf_groups,
                                  !.asked = "no_gguf", !.pc = "ask_retry"]
              ELSE [gguf EXCEPT !.outcome = "menu", !.gguf_groups = gguf_groups,
                                !.pc = "menu"]
    /\ UNCHANGED <<ex, cfg, scan, menu, probe, nim, disk, run>>

\* One line typed at the prompt of display_gguf_menu.  When the menu returns
\* a group the pass goes on: the directory of the variant is named and made,
\* and the loop over selected_files starts.
GgufMenuChoice ==
    /\ gguf.pc = "menu"
    /\ \E typed \in TypedChoices, made \in BOOLEAN :
        LET answer == display_gguf_menu_choice(gguf.gguf_groups, typed)
            selected_display == answer.name
            named == [gguf EXCEPT !.selected_display = selected_display,
                                  !.selected_files = answer.files,
                                  !.quantization = quantization_of(selected_display),
                                  !.gguf_variant =
                                      gguf_variant_of(gguf.gguf_repo, selected_display),
                                  !.final_model_dir =
                                      final_model_dir_of(gguf.model_name, gguf.gguf_repo,
                                                         selected_display)]
        IN  gguf' =
              IF ~answer.returns THEN gguf
              ELSE IF selected_display = "None"
                THEN [gguf EXCEPT !.result = "None", !.pc = "returned"]
              ELSE IF ~made
                \* os.makedirs raised: 'except Exception' of the outer try
                THEN [named EXCEPT !.asked = "unexpected", !.pc = "ask_retry"]
              ELSE [named EXCEPT !.downloaded_files = <<>>, !.attempted = <<>>,
                                 !.pc = "download"]
    /\ UNCHANGED <<ex, cfg, scan, menu, probe, nim, disk, run>>

\* the files of the list taken from its end
next_file_from_end(files, done) == files[Len(files) - Len(done)]
\* for file_path in selected_files: the file of the pass after those done
next_file(files, done) == files[Len(done) + 1]

\* One pass of the loop over selected_files: hf_hub_download of the next file
\* returns or raises; after the last file the else branch of the loop runs:
\* the README, the copy of the configuration files, the return.
DownloadGgufFile ==
    /\ gguf.pc = "download"
    /\ \E downloaded, copied \in BOOLEAN :
        LET file_path == next_file(gguf.selected_files, gguf.downloaded_files)
            downloaded_files == Append(gguf.downloaded_files, file_path)
            called == [gguf EXCEPT !.attempted = Append(gguf.attempted, file_path)]
        IN  IF ~downloaded
              THEN /\ gguf' = after_failed_fetch(called)
                   /\ UNCHANGED <<disk, run>>
            ELSE IF Len(downloaded_files) < Len(gguf.selected_files)
              THEN /\ gguf' = [called EXCEPT !.downloaded_files = downloaded_files]
                   /\ UNCHANGED <<disk, run>>
            ELSE IF ~copied
              \* shutil.copy2 raised: 'Error copying config files', return None; the
              \* directory is not handed to the caller, what reached it is not followed
              THEN /\ gguf' = [called EXCEPT !.downloaded_files = downloaded_files,
                                             !.result = "None", !.pc = "returned"]
                   /\ UNCHANGED <<disk, run>>
            ELSE /\ gguf' = [called EXCEPT !.downloaded_files = downloaded_files,
                                           !.result = gguf.final_model_dir, !.pc = "returned"]
                 /\ disk' = after_config_copy(disk)
    /\ UNCHANGED <<ex, cfg, scan, menu, probe, nim, run>>

\* The answer to a (y/n) prompt: 'y' goes round the while loop, anything else
\* returns None.  What the pass that ended left behind is dead from here on.
AnswerGgufRetry ==
    /\ gguf.pc = "ask_retry"
    /\ \E typed \in TypedAnswers :
        LET retry == lower(strip(typed))
        IN  gguf' =
              IF retry # "y"
                THEN [gguf EXCEPT !.result = "None", !.pc = "returned", !.asked = ""]
              ELSE [gguf EXCEPT !.pc = "prompt", !.asked = "", !.gguf_groups = <<>>,
                                !.selected_display = "", !.selected_files = <<>>,
                                !.quantization = "", !.gguf_variant = "",
                                !.final_model_dir = "", !.attempted = <<>>,
                                !.downloaded_files = <<>>]
    /\ UNCHANGED <<ex, cfg, scan, menu, probe, nim, disk, run>>

\* Ctrl-C while download_gguf_files is blocked.  The input of the repository
\* (line 448) stands before the try, and the input of line 601 inside the
\* handler of 'except Exception': there KeyboardInterrupt leaves the function.
\* Everywhere else 'except KeyboardInterrupt' of the outer try breaks the
\* loop, or display_gguf_menu returns (None, None): the function returns None.
\* Either way the frame is left: of its locals only the place of the
\* interrupt is kept.
InterruptGguf ==
    /\ gguf.pc \in {"prompt", "list", "menu", "download", "ask_retry"}
    /\ LET left == [GgufStart(gguf.NIM_MODEL_DIR, gguf.BASE_MODEL_REPO) EXCEPT
                        !.outcome = "interrupted", !.interrupted_at = gguf.pc,
                        !.asked = gguf.asked]
       IN  gguf' =
             IF gguf.pc = "prompt" \/ (gguf.pc = "ask_retry" /\ gguf.asked = "unexpected")
               THEN [left EXCEPT !.result = "KeyboardInterrupt", !.pc = "raised"]
             ELSE [left EXCEPT !.result = "None", !.pc = "returned"]
    /\ UNCHANGED <<ex, cfg, scan, menu, probe, nim, disk, run>>

(***************************************************************************)
(* One session of a menu, from the call to the return.                     *)
(***************************************************************************)
\* the group mappings download_gguf_files hands to display_gguf_menu
GroupMappings ==
    {extract_gguf_files(l) : l \in ListsOf(GgufPaths, MaxMenuFiles)} \ {<<>>}

\* the mappings scan_local_gguf_files hands to display_local_gguf_menu
LocalMappings ==
    {<<>>} \cup
    UNION {UNION {{scan_loop(F, walk, 1, <<>>) : walk \in Walks(T, <<>>)} :
                  F \in {G \in SUBSET (T \X FileNames) : Cardinality(G) <= MaxMenuFiles}} :
           T \in TreesUpTo(MaxMenuDirs)}

\* the version lists select_nim_version hands to display_versions_menu
VersionLists == {<<"1.10.0">>, <<"1.10.0", "1.2.3">>}

MenuIdle == [pc |-> "idle"]

MenuStart(kind, gguf_groups, local_models, versions) ==
    [pc |-> "call",
     kind |-> kind,
     gguf_groups |-> gguf_groups,
     local_models |-> local_models,
     versions |-> versions,
     displayed |-> <<>>,        \* the numbered lines printed, in their order
     rejected |-> <<>>,         \* the lines typed that made the menu ask again
     event |-> "",              \* what ended the last wait: a "line" or an "interrupt"
     typed |-> "",              \* the line last typed
     result |-> "running",      \* the value returned: a display name, a path, a version
     files |-> <<>>]            \* the file list display_gguf_menu returns with the name

MenuInit ==
    \/ \E gguf_groups \in GroupMappings : menu = MenuStart("gguf", gguf_groups, <<>>, <<>>)
    \/ \E local_models \in LocalMappings : menu = MenuStart("local", <<>>, local_models, <<>>)
    \/ \E versions \in VersionLists : menu = MenuStart("versions", <<>>, <<>>, versions)

\* the menu up to its first prompt: the numbered lines, or for
\* display_local_gguf_menu with an empty mapping the return of "download_new"
OpenMenu ==
    /\ menu.pc = "call"
    /\ menu' =
         IF menu.kind = "gguf"
           THEN [menu EXCEPT !.displayed = sorted_items(menu.gguf_groups), !.pc = "prompting"]
         ELSE IF menu.kind = "versions"
           THEN [menu EXCEPT !.displayed = menu.versions, !.pc = "prompting"]
         ELSE IF menu.local_models = <<>>
           THEN [menu EXCEPT !.result = "download_new", !.pc = "returned"]
         ELSE [menu EXCEPT !.displayed = Append(sorted_keys(menu.local_models),
                                                "Choose new from HF"),
                           !.pc = "prompting"]
    /\ UNCHANGED <<ex, cfg, scan, gguf, probe, nim, disk, run>>

\* a menu that asks again whatever is typed
menu_choice_again(m, typed) == MenuAgain
\* what a menu of the kind answers to the line typed
menu_choice(m, typed) ==
    IF m.kind = "gguf" THEN display_gguf_menu_choice(m.gguf_groups, typed)
    ELSE IF m.kind = "local" THEN display_local_gguf_menu_choice(m.local_models, typed)
    ELSE display_versions_menu_choice(m.versions, typed)

\* what the user may type at the prompt of a menu session
TypedAtMenu == {"q", "Q", "x", " 1 ", "2"} \cup {str(n) : n \in 0..(MaxMenuFiles + 2)}

\* one line typed at the prompt of the menu
MenuChoice ==
    /\ menu.pc = "prompting"
    /\ \E typed \in TypedAtMenu :
        LET answer == menu_choice(menu, typed)
        IN  IF answer.returns
            THEN menu' = [menu EXCEPT !.event = "line", !.typed = typed,
                                      !.result = answer.name, !.files = answer.files,
                                      !.pc = IF answer.name = "exit" THEN "exited"
                                             ELSE "returned"]
            ELSE /\ Len(menu.rejected) < MaxRejected
                 /\ menu' = [menu EXCEPT !.event = "line", !.typed = typed,
                                         !.rejected = Append(menu.rejected, typed)]
    /\ UNCHANGED <<ex, cfg, scan, gguf, probe, nim, disk, run>>

\* KeyboardInterrupt leaves the menu uncaught
menu_interrupt_raises(kind) == MenuReturn("KeyboardInterrupt", <<>>)
\* except KeyboardInterrupt: return None (None, None), or sys.exit(0) in display_versions_menu
menu_interrupt(kind) ==
    IF kind = "versions" THEN MenuReturn("exit", <<>>) ELSE MenuReturn("None", <<>>)

\* Ctrl-C while the menu waits in input()
MenuInterrupt ==
    /\ menu.pc = "prompting"
    /\ LET answer == menu_interrupt(menu.kind)
       IN  menu' = [menu EXCEPT !.event = "interrupt",
                                !.result = answer.name, !.files = answer.files,
                                !.pc = IF answer.name = "exit" THEN "exited"
                                       ELSE IF answer.name = "KeyboardInterrupt" THEN "raised"
                                       ELSE "returned"]
    /\ UNCHANGED <<ex, cfg, scan, gguf, probe, nim, disk, run>>

(***************************************************************************)
(* check_service_ready_from_logs (src/lib/utility.py).                     *)
(***************************************************************************)
\* "sub in s" of two strings
ContainsStr(s, sub) ==
    \E i \in 1..(Len(s) + 1) :
        i + Len(sub) - 1 <= Len(s) /\ SubSeq(s, i, i + Len(sub) - 1) = sub

\* the literal the log lines are searched for
ready_marker == "Application startup complete"

\* the timeout is never found to have elapsed
timed_out_never(elapsed, timeout) == FALSE
\* time.time() - start_time > timeout
timed_out(elapsed, timeout) == elapsed > timeout

\* while '\n' in log_buffer: the lines are split off one by one until one
\* holds the marker or no newline is left; what follows the last newline stays
RECURSIVE read_lines(_)
read_lines(log_buffer) ==
    LET i == find(log_buffer, "\n", 1)
        line == strip(SubSeq(log_buffer, 1, i - 1))
        rest == SubSeq(log_buffer, i + 1, Len(log_buffer))
    IN  IF i = 0 THEN [ready |-> FALSE, log_buffer |-> log_buffer]
        ELSE IF ContainsStr(line, ready_marker) THEN [ready |-> TRUE, log_buffer |-> rest]
        ELSE read_lines(rest)

\* The chunks the log stream may deliver.  They are ASCII, for which
\* decode('utf-8', errors='ignore') gives the same characters.
Chunks ==
    {"x\n", "\n", "Application startup", " complete", " complete\n",
     "INFO: Application startup complete.\nx"}

ProbeIdle == [pc |-> "idle"]

\* after start_time = time.time(), blocked in the first read of container.logs
ProbeInit ==
    \E timeout \in 1..MaxTimeout :
        probe = [pc |-> "waiting",
                 timeout |-> timeout,
                 clock |-> 0,             \* time.time() - start_time
                 pending |-> <<>>,        \* the chunk the stream has yielded, not yet looked at
                 arrivals |-> <<>>,       \* every chunk yielded so far with its time of arrival
                 stream |-> "open",
                 log_buffer |-> "",
                 result |-> "running"]

\* time passes while the call is in progress
Tick ==
    /\ probe.pc = "waiting"
    /\ probe.clock <= probe.timeout
    /\ probe' = [probe EXCEPT !.clock = probe.clock + 1]
    /\ UNCHANGED <<ex, cfg, scan, gguf, menu, nim, disk, run>>

\* the container writes to its log: the blocked generator yields a chunk
EmitChunk ==
    /\ probe.pc = "waiting"
    /\ probe.stream = "open"
    /\ probe.pending = <<>>
    /\ Len(probe.arrivals) < MaxChunks
    /\ \E chunk \in Chunks :
        probe' = [probe EXCEPT !.pending = <<chunk>>,
                               !.arrivals = Append(probe.arrivals,
                                                   [chunk |-> chunk, at |-> probe.clock])]
    /\ UNCHANGED <<ex, cfg, scan, gguf, menu, nim, disk, run>>

\* one pass of 'for log in container.logs(...)' with the chunk yielded
ProcessChunk ==
    /\ probe.pc = "waiting"
    /\ probe.pending # <<>>
    /\ LET read == read_lines(probe.log_buffer \o probe.pending[1])
       IN  probe' =
             IF timed_out(probe.clock, probe.timeout)
               THEN [probe EXCEPT !.pending = <<>>, !.result = "False", !.pc = "returned"]
             ELSE IF read.ready
               THEN [probe EXCEPT !.pending = <<>>, !.log_buffer = read.log_buffer,
                                  !.result = "True", !.pc = "returned"]
             ELSE [probe EXCEPT !.pending = <<>>, !.log_buffer = read.log_buffer]
    /\ UNCHANGED <<ex, cfg, scan, gguf, menu, nim, disk, run>>

\* the container stops and its log stream ends: the for loop is left, return False
StreamEnds ==
    /\ probe.pc = "waiting"
    /\ probe.stream = "open"
    /\ probe.pending = <<>>
    /\ probe' = [probe EXCEPT !.stream = "ended", !.result = "False", !.pc = "returned"]
    /\ UNCHANGED <<ex, cfg, scan, gguf, menu, nim, disk, run>>

\* docker raises while the stream is opened or read: except Exception, return False
ReadError ==
    /\ probe.pc = "waiting"
    /\ probe.stream = "open"
    /\ probe.pending = <<>>
    /\ probe' = [probe EXCEPT !.stream = "error", !.result = "False", !.pc = "returned"]
    /\ UNCHANGED <<ex, cfg, scan, gguf, menu, nim, disk, run>>

(***************************************************************************)
(* select_nim_version and extract_and_sort_versions                        *)
(* (src/lib/nim_selector.py).                                              *)
(***************************************************************************)
\* [int(x) for x in version.split('.')] raises no ValueError
is_numeric(version) ==
    \A i \in 1..Len(split(version, ".")) : py_int(split(version, ".")[i]) # -1

\* [int(x) for x in version.split('.')]
version_parts(version) ==
    [i \in 1..Len(split(version, ".")) |-> py_int(split(version, ".")[i])]

\* a < b of two lists of integers
RECURSIVE list_less(_, _)
list_less(a, b) ==
    IF b = <<>> THEN FALSE
    ELSE IF a = <<>> THEN TRUE
    ELSE IF Head(a) # Head(b) THEN Head(a) < Head(b)
    ELSE list_less(Tail(a), Tail(b))

\* version_sort_key(a) < version_sort_key(b): (0, parts) for a tag of
\* integers, (1, version) for any other
key_less(a, b) ==
    IF is_numeric(a) /\ is_numeric(b) THEN list_less(version_parts(a), version_parts(b))
    ELSE IF is_numeric(a) # is_numeric(b) THEN is_numeric(a)
    ELSE StrLess(a, b)

\* x put into a list sorted downwards, behind the tags whose key is not less
RECURSIVE insert_reverse(_, _)
insert_reverse(x, l) ==
    IF l = <<>> THEN <<x>>
    ELSE IF key_less(Head(l), x) THEN <<x>> \o l
    ELSE <<Head(l)>> \o insert_reverse(x, Tail(l))

\* sorted(filtered_tags, key=version_sort_key, reverse=True): downwards by
\* the key, tags of equal keys in the order they came in
RECURSIVE sorted_reverse(_)
sorted_reverse(l) ==
    IF l = <<>> THEN <<>>
    ELSE insert_reverse(l[Len(l)], sorted_reverse(SubSeq(l, 1, Len(l) - 1)))

\* [tag for tag in tags if tag != 'latest']
RECURSIVE filtered_tags(_)
filtered_tags(tags) ==
    IF tags = <<>> THEN <<>>
    ELSE IF Head(tags) # "latest" THEN <<Head(tags)>> \o filtered_tags(Tail(tags))
    ELSE filtered_tags(Tail(tags))

extract_and_sort_versions(tags) == sorted_reverse(filtered_tags(tags))

\* the tags 'ngc registry image info' may report
Tags == {"latest", "1.2.0", "1.10.0", "1.2", "rc"}

\* what get_nim_info does: sys.exit(1) after a failed command or a reply that
\* is no JSON, or the reply, whose 'tags' default to the empty list
NgcAnswers ==
    {[kind |-> "failed", tags |-> <<>>]}
    \cup {[kind |-> "info", tags |-> l] : l \in ListsOf(Tags, MaxTags)}

NimIdle == [pc |-> "idle"]

NimStart ==
    [pc |-> "call",
     tags |-> <<>>,
     versions |-> <<>>,
     selected_version |-> "",
     exit_status |-> -1,        \* the status of sys.exit, -1 while the process runs
     result |-> "running"]

\* a list without versions is shown as a menu all the same
no_versions_never(versions) == FALSE
\* if not versions
no_versions(versions) == versions = <<>>

\* select_nim_version up to the call of display_versions_menu: the registry
\* answers, the tags are filtered and sorted, an empty list ends the process
GetNimInfo ==
    /\ nim.pc = "call"
    /\ \E ngc \in NgcAnswers :
        LET versions == extract_and_sort_versions(ngc.tags)
        IN  IF ngc.kind = "failed"
            THEN /\ nim' = [nim EXCEPT !.pc = "exited", !.exit_status = 1]
                 /\ UNCHANGED <<menu, disk, run>>
            ELSE IF no_versions(versions)
            THEN /\ nim' = [nim EXCEPT !.tags = ngc.tags, !.versions = versions,
                                       !.pc = "exited", !.exit_status = 1]
                 /\ UNCHANGED <<menu, disk, run>>
            ELSE /\ nim' = [nim EXCEPT !.tags = ngc.tags, !.versions = versions,
                                       !.pc = "menu"]
                 /\ menu' = MenuStart("versions", <<>>, <<>>, versions)
    /\ UNCHANGED <<ex, cfg, scan, gguf, probe, disk, run>>

\* display_versions_menu has returned a version or ended the process; with a
\* version pull_docker_image runs, which ends the process when the pull fails
AfterVersionsMenu ==
    /\ nim.pc = "menu"
    /\ menu.pc \in {"returned", "exited"}
    /\ \E pulled \in BOOLEAN :
        nim' = IF menu.pc = "exited"
                 THEN [nim EXCEPT !.pc = "exited", !.exit_status = 0]
               ELSE IF ~pulled
                 THEN [nim EXCEPT !.selected_version = menu.result,
                                  !.pc = "exited", !.exit_status = 1]
               ELSE [nim EXCEPT !.selected_version = menu.result,
                                !.result = menu.result, !.pc = "returned"]
    /\ UNCHANGED <<ex, cfg, scan, gguf, menu, probe, disk, run>>

(***************************************************************************)
(* run-gguf.py after download_or_select_gguf_model (src/run-gguf.py).      *)
(***************************************************************************)
\* s without the '/' at its end
RECURSIVE rstrip_slashes(_)
rstrip_slashes(s) ==
    IF Len(s) > 0 /\ Char(s, Len(s)) = "/" THEN rstrip_slashes(DropLast(s, 1)) ELSE s

\* os.path.dirname(p): what stands before the last '/', without the '/' at
\* its end unless it is made of '/' only
dirname(p) ==
    LET head == SubSeq(p, 1, LastSlash(p))
    IN  IF rstrip_slashes(head) = "" THEN head ELSE rstrip_slashes(head)

\* os.path.basename(final_model_dir).split('-')[-1]
quantization_from(final_model_dir) ==
    LET pieces == split(basename(final_model_dir), "-") IN pieces[Len(pieces)]

\* os.path.basename(os.path.dirname(final_model_dir))
base_model_name_from(final_model_dir) == basename(dirname(final_model_dir))

RunIdle == [pc |-> "idle"]

\* the script blocked in download_or_select_gguf_model
RunStart ==
    [pc |-> "select",
     final_model_dir |-> "",
     quantization |-> "",
     base_model_name |-> "",
     exit_status |-> -1]

\* download_or_select_gguf_model is left: with a directory the deploy section
\* takes the tag and the model name out of its path, with None the script
\* ends by exit(1), and a KeyboardInterrupt that left the function ends it too
AfterSelect ==
    /\ run.pc = "select"
    /\ \/ gguf.pc \in {"returned", "raised"}
       \* download_model_configs gave no directory: download_gguf_files is not called
       \/ /\ gguf.pc = "idle"
          /\ cfg.pc = "raised" \/ (cfg.pc = "returned" /\ cfg.result = "None")
    /\ run' = IF gguf.pc = "raised" \/ cfg.pc = "raised"
                THEN [run EXCEPT !.pc = "raised"]
              ELSE IF gguf.pc = "idle" \/ gguf.result = "None"
                THEN [run EXCEPT !.pc = "exited", !.exit_status = 1]
              ELSE [run EXCEPT !.pc = "deploy",
                               !.final_model_dir = gguf.result,
                               !.quantization = quantization_from(gguf.result),
                               !.base_model_name = base_model_name_from(gguf.result)]
    /\ UNCHANGED <<ex, cfg, scan, gguf, menu, probe, nim, disk>>

\* the parts of the program a specification leaves out stay idle
OthersIdle == gguf = GgufIdle /\ menu = MenuIdle /\ probe = ProbeIdle /\ nim = NimIdle
              /\ disk = NoDisk /\ run = RunIdle

InitExtract == ExInit /\ cfg = CfgIdle /\ scan = ScanIdle /\ OthersIdle
NextExtract == ExtractGgufFiles
SpecExtract == InitExtract /\ [][NextExtract]_vars

InitConfigs == ex = ExIdle /\ CfgInit /\ scan = ScanIdle /\ OthersIdle
NextConfigs == EnterModelRepo \/ ListRepoFiles \/ DownloadConfigFile \/ AnswerRetry
               \/ InterruptConfigs
SpecConfigs == InitConfigs /\ [][NextConfigs]_vars

InitScan == ex = ExIdle /\ cfg = CfgIdle /\ ScanInit /\ OthersIdle
NextScan == ScanLocalGgufFiles \/ DisplayLocalGgufMenu \/ LocalMenuChoice
SpecScan == InitScan /\ [][NextScan]_vars

InitGguf == ex = ExIdle /\ cfg = CfgIdle /\ scan = ScanIdle /\ GgufInit
            /\ menu = MenuIdle /\ probe = ProbeIdle /\ nim = NimIdle
            /\ disk = DiskAfterConfigs /\ run = RunStart
NextGguf == EnterGgufRepo \/ ListGgufRepo \/ GgufMenuChoice \/ DownloadGgufFile
            \/ AnswerGgufRetry \/ InterruptGguf \/ AfterSelect
SpecGguf == InitGguf /\ [][NextGguf]_vars

\* download_or_select_gguf_model after 'download_new': download_model_configs
\* has returned a directory, its frame is gone, and download_gguf_files is
\* called with the base name of the NIM_MODEL_DIR it left in the environment
StartGguf ==
    /\ cfg.pc = "returned" /\ cfg.result = "config_temp_dir"
    /\ gguf = GgufIdle
    /\ gguf' = GgufStart(cfg.NIM_MODEL_DIR, cfg.BASE_MODEL_REPO)
    /\ cfg' = CfgIdle
    /\ UNCHANGED <<ex, scan, menu, probe, nim, disk, run>>

InitDownloads == ex = ExIdle /\ CfgInit /\ scan = ScanIdle /\ gguf = GgufIdle
                 /\ menu = MenuIdle /\ probe = ProbeIdle /\ nim = NimIdle
                 /\ disk = NoDisk /\ run = RunStart
NextDownloads == NextConfigs \/ StartGguf \/ NextGguf
SpecDownloads == InitDownloads /\ [][NextDownloads]_vars

\* the same two functions on a machine that has not run them before, the
\* files they save followed
InitModelDir == ex = ExIdle /\ CfgInit /\ scan = ScanIdle /\ gguf = GgufIdle
                /\ menu = MenuIdle /\ probe = ProbeIdle /\ nim = NimIdle
                /\ disk = DiskFresh /\ run = RunStart
SpecModelDir == InitModelDir /\ [][NextDownloads]_vars

InitMenu == ex = ExIdle /\ cfg = CfgIdle /\ scan = ScanIdle /\ gguf = GgufIdle
            /\ MenuInit /\ probe = ProbeIdle /\ nim = NimIdle /\ disk = NoDisk /\ run = RunIdle
NextMenu == OpenMenu \/ MenuChoice \/ MenuInterrupt
SpecMenu == InitMenu /\ [][NextMenu]_vars

InitVersions == ex = ExIdle /\ cfg = CfgIdle /\ scan = ScanIdle /\ gguf = GgufIdle
                /\ menu = MenuIdle /\ probe = ProbeIdle /\ nim = NimStart
                /\ disk = NoDisk /\ run = RunIdle
NextVersions == GetNimInfo \/ OpenMenu \/ MenuChoice \/ MenuInterrupt \/ AfterVersionsMenu
SpecVersions == InitVersions /\ [][NextVersions]_vars

\* The three menus with their callers: display_local_gguf_menu given the
\* mapping of a scan, display_gguf_menu below download_gguf_files, and
\* display_versions_menu below select_nim_version.  A behaviour follows one.
InitLocalMenu ==
    /\ ex = ExIdle /\ cfg = CfgIdle /\ scan = ScanIdle /\ gguf = GgufIdle
    /\ \E local_models \in LocalMappings : menu = MenuStart("local", <<>>, local_models, <<>>)
    /\ probe = ProbeIdle /\ nim = NimIdle /\ disk = NoDisk /\ run = RunIdle
\* download_gguf_files called for the base model of the example
InitGgufMenu ==
    /\ ex = ExIdle /\ cfg = CfgIdle /\ scan = ScanIdle
    /\ gguf = GgufStart(nim_model_dir_of("meta-llama/Llama-3.2-3B-Instruct"),
                        "meta-llama/Llama-3.2-3B-Instruct")
    /\ menu = MenuIdle /\ probe = ProbeIdle /\ nim = NimIdle
    /\ disk = DiskAfterConfigs /\ run = RunStart
InitEntries == InitLocalMenu \/ InitGgufMenu \/ InitVersions
NextEntries == NextGguf \/ NextVersions
SpecEntries == InitEntries /\ [][NextEntries]_vars

InitProbe == ex = ExIdle /\ cfg = CfgIdle /\ scan = ScanIdle /\ gguf = GgufIdle
             /\ menu = MenuIdle /\ ProbeInit /\ nim = NimIdle /\ disk = NoDisk /\ run = RunIdle
NextProbe == Tick \/ EmitChunk \/ ProcessChunk \/ StreamEnds \/ ReadError
SpecProbe == InitProbe /\ [][NextProbe]_vars
\* Time passes, and the loop looks at a chunk the stream has yielded; nothing
\* obliges the container to write or to stop.
SpecProbeFair == SpecProbe /\ WF_vars(Tick) /\ WF_vars(ProcessChunk)

(***************************************************************************)
(* Claims about extract_gguf_files (SpecExtract).                          *)
(***************************************************************************)
\* the places <<key, index>> of the returned groups that hold path p
PlacesOf(groups, p) ==
    {kj \in UNION {{<<k, j>> : j \in 1..Len(groups[k])} : k \in DOMAIN groups} :
        groups[kj[1]][kj[2]] = p}

Members(groups) == UNION {{groups[k][j] : j \in 1..Len(groups[k])} : k \in DOMAIN groups}

Listed(l) == {l[i] : i \in 1..Len(l)}

\* C1: the returned groups partition the filtered listing: every listed path
\* ending in '.gguf' is at exactly one place of exactly one group, and nothing
\* else is in a group.
C1_GroupsPartitionListing ==
    ex.pc = "returned" =>
        /\ \A p \in Listed(ex.repo_files) :
              EndsWith(p, ".gguf") => Cardinality(PlacesOf(ex.result, p)) = 1
        /\ \A p \in Members(ex.result) :
              p \in Listed(ex.repo_files) /\ EndsWith(p, ".gguf")

C1_Witness ==
    /\ ex.pc = "returned"
    /\ \E p \in Listed(ex.repo_files) : ~EndsWith(p, ".gguf")
    /\ \E k \in DOMAIN ex.result : Len(ex.result[k]) = 2

\* the final path segment of p, stated without basename: the suffix after the last '/'
IsFinalSegmentOf(seg, p) ==
    /\ ~Contains(seg, "/")
    /\ \/ p = seg
       \/ EndsWith(p, "/" \o seg)

\* the ways to read seg as <base>-<digits>-of-<digits>.gguf: the base is the
\* first n characters and the first number the m characters after the '-'
SplitsOf(seg) ==
    {nm \in (0..Len(seg)) \X (1..Len(seg)) :
        LET n == nm[1]
            m == nm[2]
            d1 == SubSeq(seg, n + 2, n + 1 + m)
            d2 == SubSeq(seg, n + m + 6, Len(seg) - 5)
        IN  /\ n + m + 6 <= Len(seg) - 5
            /\ AllDigits(d1) /\ AllDigits(d2)
            /\ seg = SubSeq(seg, 1, n) \o "-" \o d1 \o "-of-" \o d2 \o ".gguf"}

BasesOf(seg) == {SubSeq(seg, 1, nm[1]) : nm \in SplitsOf(seg)}

\* the part index and the number of parts that a multi-part name states
PartIndex(seg) ==
    LET nm == CHOOSE x \in SplitsOf(seg) : TRUE
    IN  ParseDigits(SubSeq(seg, nm[1] + 2, nm[1] + 1 + nm[2]))

PartTotal(seg) ==
    LET nm == CHOOSE x \in SplitsOf(seg) : TRUE
    IN  ParseDigits(SubSeq(seg, nm[1] + nm[2] + 6, Len(seg) - 5))

\* C2: the key of every member is decided by its final path segment alone,
\* <base>.gguf for <base>-<digits>-of-<digits>.gguf and the segment itself
\* otherwise; the member is the full listed path; and a listing of only
\* 'single.gguf' gives {'single.gguf': ['single.gguf']}.
C2_KeyFromFinalSegment ==
    ex.pc = "returned" =>
        /\ \A k \in DOMAIN ex.result : \A j \in 1..Len(ex.result[k]) :
              LET p == ex.result[k][j]
                  seg == CHOOSE s \in {SubSeq(p, i, Len(p)) : i \in 1..Len(p)} :
                            IsFinalSegmentOf(s, p)
              IN  /\ p \in Listed(ex.repo_files)
                  /\ IF BasesOf(seg) # {}
                     THEN \A b \in BasesOf(seg) : k = b \o ".gguf"
                     ELSE k = seg
        /\ ex.repo_files = <<"single.gguf">> =>
              ex.result = ("single.gguf" :> <<"single.gguf">>)

C2_Witness ==
    /\ ex.pc = "returned"
    /\ DOMAIN ex.result = {"m.gguf", "single.gguf"}
    /\ "d/m-00001-of-00003.gguf" \in Members(ex.result)
    /\ "d/single.gguf" \in Members(ex.result)

\* C3: within every group the members are in increasing numeric part index:
\* of two parts of one multi-part file, the one with the smaller index comes
\* before the one with the larger index.
C3_NumericPartOrder ==
    ex.pc = "returned" =>
        \A k \in DOMAIN ex.result : \A a, b \in 1..Len(ex.result[k]) :
            LET sa == basename(ex.result[k][a])
                sb == basename(ex.result[k][b])
            IN  (/\ SplitsOf(sa) # {} /\ SplitsOf(sb) # {}
                 /\ PartTotal(sa) = PartTotal(sb)
                 /\ PartIndex(sa) < PartIndex(sb)) => a < b

\* C4: the mapping is empty exactly when no listed path ends in '.gguf', and
\* no group is empty.
C4_EmptyIffNoGguf ==
    ex.pc = "returned" =>
        /\ (ex.result = <<>>) <=> (\A p \in Listed(ex.repo_files) : ~EndsWith(p, ".gguf"))
        /\ \A k \in DOMAIN ex.result : Len(ex.result[k]) >= 1

C4_Witness ==
    /\ ex.pc = "returned"
    /\ Len(ex.repo_files) = 2
    /\ ex.result = <<>>

(***************************************************************************)
(* Claims about download_model_configs (SpecConfigs).                      *)
(***************************************************************************)
\* the number of '/'-separated components of p: one starts at the first
\* character and one after every '/'
Components(p) == Cardinality({i \in 1..(Len(p) + 1) : i = 1 \/ Char(p, i - 1) = "/"})

CandidatesOf(repo_files, required_file) ==
    {p \in Listed(repo_files) : EndsWith(p, required_file)}

\* C5: the path resolved for a required basename is one of its candidates with
\* the fewest components and, among those, of the least length; the listing
\* ['a/config.json', 'config.json'] resolves 'config.json' to 'config.json'.
C5_ShallowestThenShortest ==
    /\ \A r \in DOMAIN cfg.found_files :
          LET chosen == cfg.found_files[r]
          IN  /\ chosen \in CandidatesOf(cfg.repo_files, r)
              /\ \A c \in CandidatesOf(cfg.repo_files, r) :
                    \/ Components(chosen) < Components(c)
                    \/ Components(chosen) = Components(c) /\ Len(chosen) <= Len(c)
    /\ cfg.repo_files = <<"a/config.json", "config.json">> =>
          /\ "config.json" \in DOMAIN cfg.found_files
          /\ cfg.found_files["config.json"] = "config.json"

C5_Witness ==
    /\ cfg.repo_files = <<"ab/config.json", "a/b/tokenizer.json", "a/config.json">>
    /\ DOMAIN cfg.found_files = {"config.json", "tokenizer.json"}
    /\ cfg.found_files["config.json"] = "a/config.json"

\* the required basenames no listed path is a candidate for
ZeroCandidates(repo_files) ==
    {required_files[k] : k \in
        {k \in 1..Len(required_files) : CandidatesOf(repo_files, required_files[k]) = {}}}

\* C6: when the listing was obtained and some required basename has no
\* candidate, every such basename is in the reported missing-files list and
\* the function asks whether to try a different model; there, an answer other
\* than 'y' returns None and 'y' goes back to the repository prompt.
C6_MissingReportedThenAsked ==
    [][/\ (/\ cfg.pc = "list"
           /\ cfg'.outcome \in {"required_not_found", "missing", "found"}
           /\ ZeroCandidates(cfg'.repo_files) # {})
          => /\ cfg'.pc = "ask_retry" /\ cfg'.asked = "missing"
             /\ Listed(cfg'.missing_files) = ZeroCandidates(cfg'.repo_files)
       /\ (cfg.pc = "ask_retry" /\ cfg.asked = "missing")
          => \/ cfg'.pc = "returned" /\ cfg'.result = "None"
             \/ cfg'.pc = "prompt"]_vars

\* C10: a typed repository identifier goes on to the temporary directory and
\* the listing only if it has exactly one '/'; any other identifier is
\* rejected and the prompt repeated.
C10_ExactlyOneSeparator ==
    (cfg.outcome # "" /\ Count(cfg.model_repo, "/") # 1)
        => cfg.outcome \in {"empty", "format"} /\ cfg.pc = "prompt"

(***************************************************************************)
(* Claims about scan_local_gguf_files and display_local_gguf_menu          *)
(* (SpecScan).                                                             *)
(***************************************************************************)
\* the number of files directly in d whose name ends in '.gguf'
DirectGguf(d) == Cardinality({x \in scan.files : x[1] = d /\ EndsWith(x[2], ".gguf")})

Qualifying == {d \in scan.dirs : DirectGguf(d) >= 1}

Values(dict) == {dict[k] : k \in DOMAIN dict}

\* C7: for a work directory that does not exist the scan returns the empty
\* mapping, and the menu then returns 'download_new' without a prompt.
C7_AbsentRootScansEmpty ==
    ~scan.exists =>
        /\ scan.pc \in {"call", "scanned", "returned"}
        /\ scan.local_models = <<>>
        /\ scan.pc = "returned" => scan.selected = "download_new"

C7_Witness == ~scan.exists /\ scan.pc = "returned" /\ scan.selected = "download_new"

\* C8: a directory is a value of the returned mapping exactly when it directly
\* holds a '.gguf' file, under a label that shows the number of its direct
\* '.gguf' files; weight files only in a/b give the one entry 'a/b (n GGUF files)'.
C8_QualifiesByDirectChildren ==
    (scan.exists /\ scan.pc = "scanned") =>
        /\ \A d \in scan.dirs :
              (walk_root(d) \in Values(scan.local_models)) <=> (d \in Qualifying)
        /\ \A d \in Qualifying : \E label \in DOMAIN scan.local_models :
              /\ scan.local_models[label] = walk_root(d)
              /\ EndsWith(label, " (" \o str(DirectGguf(d)) \o " GGUF files)")
        /\ Qualifying = {<<"a", "b">>} =>
              scan.local_models =
                  ("a/b (" \o str(DirectGguf(<<"a", "b">>)) \o " GGUF files)" :> "w/a/b")

\* C9: the mapping has one entry for every qualifying directory, and the label
\* of the work directory itself differs from the label of every nested
\* qualifying directory.
C9_OneEntryPerQualifyingDirectory ==
    (scan.exists /\ scan.pc = "scanned") =>
        /\ Cardinality(DOMAIN scan.local_models) = Cardinality(Qualifying)
        /\ \A d \in Qualifying \ {<<>>} :
              <<>> \in Qualifying =>
                  display_name(<<>>, DirectGguf(<<>>)) # display_name(d, DirectGguf(d))

(***************************************************************************)
(* Claims about the directory download_gguf_files builds (SpecGguf).       *)
(***************************************************************************)
\* the part of a repository identifier before its first '/'
OwnerOf(repo) ==
    LET n == CHOOSE n \in 0..Len(repo) :
                 /\ n = Len(repo) \/ Char(repo, n + 1) = "/"
                 /\ \A i \in 1..n : Char(repo, i) # "/"
    IN  SubSeq(repo, 1, n)

\* the part of a repository identifier after its last '/'
NameOf(repo) ==
    LET n == CHOOSE n \in 0..Len(repo) :
                 /\ n = Len(repo) \/ Char(repo, Len(repo) - n) = "/"
                 /\ \A i \in (Len(repo) - n + 1)..Len(repo) : Char(repo, i) # "/"
    IN  SubSeq(repo, Len(repo) - n + 1, Len(repo))

\* the call has returned a directory
ReturnedDir == gguf.pc = "returned" /\ gguf.result # "None"

\* the three segments of a directory work_root/model/variant
IsLayout(dir, model, variant) == dir = base_work_dir \o "/" \o model \o "/" \o variant

\* C11 as stated: after a successful download the final model directory is
\* work_root/owner-name/owner-tag, the model segment being the owner of the
\* repository joined to its name with '-' (read for the GGUF repository of the
\* example, or for the base model repository).
C11_OwnerNameModelSegment ==
    ReturnedDir =>
        \E repo \in {gguf.gguf_repo, gguf.BASE_MODEL_REPO} :
            IsLayout(gguf.result,
                     OwnerOf(repo) \o "-" \o NameOf(repo),
                     OwnerOf(gguf.gguf_repo) \o "-" \o gguf.quantization)

\* C11 amended: after a successful download the final model directory is
\* work_root/name/owner-tag: the model segment is the name of the base model
\* repository (what follows its last '/'), without its owner, and the variant
\* segment is the owner of the GGUF repository joined to the tag with '-';
\* base model 'meta-llama/Llama-3.2-3B-Instruct', GGUF repository
\* 'bartowski/Llama-3.2-3B-Instruct-GGUF' and key 'model-Q4_K_M.gguf' give
\* 'Llama-3.2-3B-Instruct' and 'bartowski-Q4_K_M'.
C11_BaseNameModelSegment ==
    ReturnedDir =>
        /\ IsLayout(gguf.result,
                    NameOf(gguf.BASE_MODEL_REPO),
                    OwnerOf(gguf.gguf_repo) \o "-" \o gguf.quantization)
        /\ (/\ gguf.BASE_MODEL_REPO = "meta-llama/Llama-3.2-3B-Instruct"
            /\ gguf.gguf_repo = "bartowski/Llama-3.2-3B-Instruct-GGUF"
            /\ gguf.selected_display = "model-Q4_K_M.gguf")
           => gguf.result = "w/Llama-3.2-3B-Instruct/bartowski-Q4_K_M"

C11_Witness ==
    /\ ReturnedDir
    /\ gguf.gguf_repo = "bartowski/Llama-3.2-3B-Instruct-GGUF"
    /\ gguf.selected_display = "model-Q4_K_M.gguf"
    /\ gguf.result = "w/Llama-3.2-3B-Instruct/bartowski-Q4_K_M"

\* the group key has been selected and the tag derived from it
TagDerived == gguf.pc \in {"download", "ask_retry", "returned"} /\ gguf.selected_display # ""

\* the '-'-separated components of a key without '.gguf' that look like a
\* quantization: 'Q' first, and a '_' somewhere or only digits, at least one, behind the 'Q'
QualifyingParts(parts) ==
    {i \in 1..Len(parts) :
        /\ Len(parts[i]) >= 1 /\ Char(parts[i], 1) = "Q"
        /\ \/ \E j \in 1..Len(parts[i]) : Char(parts[i], j) = "_"
           \/ Len(parts[i]) >= 2 /\ \A j \in 2..Len(parts[i]) : IsDigit(Char(parts[i], j))}

C13_FallbackKeepsKey ==
    (/\ TagDerived
     /\ QualifyingParts(split(DropLast(gguf.selected_display, 5), "-")) = {}
     /\ QualifyingParts(split(remove_all(gguf.selected_display, ".gguf"), "-")) = {})
    => gguf.quantization = DropLast(gguf.selected_display, 5)

(***************************************************************************)
(* Claims about the menus (SpecMenu).                                      *)
(***************************************************************************)
\* the number of options that stand for a payload: the fallback line of
\* display_local_gguf_menu is not one of them
OptionCount(m) == IF m.kind = "local" THEN Len(m.displayed) - 1 ELSE Len(m.displayed)

\* the integer a typed line stands for, 0 when it stands for none
TypedNumber(typed) == IF AllDigits(strip(typed)) THEN ParseDigits(strip(typed)) ELSE 0

\* the typed line is the quit token, in either case
IsQuit(typed) == strip(typed) \in {"q", "Q"}

\* a line has just been read at the prompt
LineRead == menu.pc = "prompting" /\ menu'.event = "line"

\* the payload behind the k-th numbered line: name and files of a group, the
\* path of a local model, a version
PayloadName(m, k) ==
    IF m.kind = "local" THEN m.local_models[m.displayed[k]] ELSE m.displayed[k]
PayloadFiles(m, k) ==
    IF m.kind = "gguf" THEN m.gguf_groups[m.displayed[k]] ELSE <<>>

\* C14: in display_gguf_menu and display_local_gguf_menu the result is fixed
\* by the first line that ends the session: 'q' in any case gives None, an
\* integer k of 1..N the payload of the k-th line displayed, N+1 in the local
\* menu 'download_new'; every other line leaves the menu asking, so no payload
\* that was not displayed is ever returned.
C14_ResultFixedByTerminatingInput ==
    [][(LineRead /\ menu.kind \in {"gguf", "local"}) =>
         LET k == TypedNumber(menu'.typed)
             N == OptionCount(menu)
         IN  IF IsQuit(menu'.typed)
               THEN menu'.pc = "returned" /\ menu'.result = "None" /\ menu'.files = <<>>
             ELSE IF 1 <= k /\ k <= N
               THEN /\ menu'.pc = "returned"
                    /\ menu'.result = PayloadName(menu, k)
                    /\ menu'.files = PayloadFiles(menu, k)
             ELSE IF menu.kind = "local" /\ k = N + 1
               THEN menu'.pc = "returned" /\ menu'.result = "download_new"
             ELSE menu'.pc = "prompting" /\ menu'.result = "running"]_vars

C14_Witness ==
    /\ menu.kind = "local" /\ menu.pc = "returned" /\ menu.event = "line"
    /\ Len(menu.displayed) = 3
    /\ menu.typed = "2"
    /\ menu.result = menu.local_models[menu.displayed[2]]

\* the exits of a menu session
MenuExits == {"returned", "exited"}

\* the typed line ends a session of the menu: the quit token, the number of
\* an option, or in the local menu the number of the fallback line
EndsSession(m, typed) ==
    \/ IsQuit(typed)
    \/ 1 <= TypedNumber(typed) /\ TypedNumber(typed) <= Len(m.displayed)

\* C15: a menu session is in Prompting or in one of its exits; only
\* Prompting repeats and an exit is final; a line that is neither the quit
\* token nor the number of an option leaves the session in Prompting with the
\* same options ('x' then '3' against two options), and a line that is one of
\* them ends the session.
C15_OnlyPromptingRepeats ==
    [][/\ menu.pc \in MenuExits => menu' = menu
       /\ menu.pc = "prompting" =>
            /\ menu'.pc \in MenuExits \cup {"prompting"}
            /\ menu'.displayed = menu.displayed
            /\ menu'.gguf_groups = menu.gguf_groups
            /\ menu'.local_models = menu.local_models
            /\ menu'.versions = menu.versions
       /\ LineRead =>
            IF EndsSession(menu, menu'.typed)
              THEN menu'.pc \in MenuExits
              ELSE menu'.pc = "prompting"]_vars

C15_Witness ==
    /\ menu.kind = "gguf" /\ menu.pc = "prompting"
    /\ Len(menu.displayed) = 2
    /\ menu.rejected = <<"x", "3">>

\* C16: Ctrl-C while display_gguf_menu or display_local_gguf_menu waits for
\* input gives what the quit token gives, None, and the interrupt does not
\* leave the menu as an exception.
C16_InterruptReturnsAsQuit ==
    [][(/\ menu.pc = "prompting" /\ menu'.event = "interrupt"
        /\ menu.kind \in {"gguf", "local"}) =>
         /\ menu'.pc = "returned"
         /\ menu'.result = "None" /\ menu'.files = <<>>
         /\ menu'.result = menu_choice(menu, "q").name
         /\ menu'.files = menu_choice(menu, "q").files]_vars

C16_Witness ==
    /\ menu.kind = "gguf" /\ menu.pc = "returned"
    /\ menu.event = "interrupt" /\ menu.result = "None"

(***************************************************************************)
(* Claims about download_model_configs and download_gguf_files together    *)
(* (SpecDownloads).                                                        *)
(***************************************************************************)
\* the call of the frame was ended by Ctrl-C
Interrupted(frame) == frame.pc \in {"returned", "raised"} /\ frame.outcome = "interrupted"

\* C17: Ctrl-C at any blocking prompt of download_model_configs or
\* download_gguf_files (the repository prompt, the (y/n) prompts), or while a
\* listing or a download is in progress, makes the function return None; the
\* interrupt never leaves the function.
C17_InterruptReturnsNone ==
    /\ Interrupted(cfg) => cfg.pc = "returned" /\ cfg.result = "None"
    /\ Interrupted(gguf) => gguf.pc = "returned" /\ gguf.result = "None"

\* a call of hf_hub_download has just raised: a file more was asked for and
\* none more was fetched
FetchFailed(frame, next) ==
    /\ frame.pc = "download"
    /\ Len(next.attempted) = Len(frame.attempted) + 1
    /\ next.downloaded_files = frame.downloaded_files

\* the files of the batch: the required files found, the files of the group
ConfigBatch == [i \in 1..Len(required_files) |-> cfg.found_files[required_files[i]]]
GgufBatch == gguf.selected_files

\* the function waits at the question that follows a failed fetch
AskedAfterFetch(frame) == frame.pc = "ask_retry" /\ frame.asked = "download"

\* C18 as stated: when the fetch of one file fails, the remaining files of
\* the batch are still attempted: the failure is not reported to the user
\* before every file of the batch has been asked for.
C18_RemainingStillAttempted ==
    /\ AskedAfterFetch(cfg) => Len(cfg.attempted) = Len(ConfigBatch)
    /\ AskedAfterFetch(gguf) => Len(gguf.attempted) = Len(GgufBatch)

\* what follows a failed fetch in a frame: the question, with the files
\* attempted a prefix of the batch ending at the file that failed; and from
\* the question no further file of the batch is asked for: the function goes
\* back to the repository prompt or returns None
AbandonsBatch(frame, next, batch) ==
    /\ FetchFailed(frame, next) =>
          /\ AskedAfterFetch(next)
          /\ next.attempted = SubSeq(batch, 1, Len(frame.downloaded_files) + 1)
    /\ AskedAfterFetch(frame) =>
          /\ next.pc \in {"ask_retry", "prompt", "returned"}
          /\ next.pc = "ask_retry" => next = frame
          /\ next.pc = "prompt" => next.attempted = <<>>
          /\ next.pc = "returned" => next.result = "None"

\* C18 amended: when the fetch of one file fails in download_model_configs or
\* download_gguf_files, the remaining files of the batch are abandoned: the
\* function asks at once whether to try a different model, and then goes back
\* to the repository prompt ('y') or returns None, without another fetch.
C18_FailedFetchAbandonsBatch ==
    [][/\ cfg.pc # "idle" /\ cfg'.pc # "idle" => AbandonsBatch(cfg, cfg', ConfigBatch)
       /\ gguf.pc # "idle" => AbandonsBatch(gguf, gguf', GgufBatch)]_vars

C18_Witness ==
    /\ gguf.pc # "idle"
    /\ AskedAfterFetch(gguf)
    /\ Len(gguf.attempted) = 1 /\ Len(gguf.selected_files) = 2

(***************************************************************************)
(* Claims about check_service_ready_from_logs (SpecProbe, SpecProbeFair).  *)
(***************************************************************************)
\* the text of the first n chunks of the stream, one after the other
RECURSIVE Received(_)
Received(n) == IF n = 0 THEN "" ELSE Received(n - 1) \o probe.arrivals[n].chunk

\* the text holds a whole line with the marker in it: the marker, and a
\* newline somewhere behind it
HasMarkerLine(text) ==
    \E a \in 1..Len(text) :
        /\ a + Len(ready_marker) - 1 <= Len(text)
        /\ SubSeq(text, a, a + Len(ready_marker) - 1) = ready_marker
        /\ \E i \in (a + Len(ready_marker))..Len(text) : Char(text, i) = "\n"

\* C19: the probe returns True only if some log line, put together across the
\* chunks it came in, holds 'Application startup complete' and had arrived
\* before the timeout was over; when the stream ends without one, or reading
\* fails, it returns False, and it returns in every case rather than raise.
C19_TrueOnlyForMarkerInTime ==
    /\ probe.pc \in {"idle", "waiting", "returned"}
    /\ probe.pc = "returned" =>
          /\ probe.result \in {"True", "False"}
          /\ probe.result = "True" =>
                \E n \in 1..Len(probe.arrivals) :
                    /\ probe.arrivals[n].at <= probe.timeout
                    /\ HasMarkerLine(Received(n))
          /\ probe.stream \in {"ended", "error"} => probe.result = "False"

C19_Witness ==
    /\ probe.pc = "returned" /\ probe.result = "True"
    /\ Len(probe.arrivals) = 2
    /\ probe.arrivals[1].chunk = "Application startup"
    /\ probe.arrivals[2].chunk = " complete\n"

\* C20: in every execution the probe returns in the end, also when the marker
\* is never seen and the container writes nothing more while its stream stays
\* open: once the timeout is over it returns False.
C20_ReturnsOnceTimeoutElapsed ==
    (probe.pc = "waiting") ~> (probe.pc = "returned")

(***************************************************************************)
(* Claims about the download loop of download_gguf_files (SpecGguf).       *)
(***************************************************************************)
\* the files of the group selected, in the order the mapping stores them
StoredMembers == gguf.gguf_groups[gguf.selected_display]

\* the loop over the files of the group is running or has ended in a question
InBatch == gguf.pc = "download" \/ (gguf.pc = "ask_retry" /\ gguf.asked = "download")

\* C21: download_gguf_files asks for the files of the selected group one at
\* a time in the stored order of the group, and returns a directory only
\* after every member was fetched; after a failed fetch it returns None or
\* goes back to the repository prompt, never the directory of a group that is
\* not complete.
C21_MembersInOrderAllOrNone ==
    [][/\ InBatch =>
            /\ gguf.attempted = SubSeq(StoredMembers, 1, Len(gguf.attempted))
            /\ gguf.downloaded_files = SubSeq(StoredMembers, 1, Len(gguf.downloaded_files))
            /\ Len(gguf'.attempted) <= Len(gguf.attempted) + 1
       /\ (gguf.pc # "returned" /\ gguf'.pc = "returned" /\ gguf'.result # "None") =>
            /\ gguf.pc = "download"
            /\ gguf'.downloaded_files = StoredMembers
            /\ gguf'.attempted = StoredMembers
            /\ gguf'.result = gguf.final_model_dir
       /\ AskedAfterFetch(gguf) =>
            /\ gguf'.pc \in {"ask_retry", "prompt", "returned"}
            /\ gguf'.pc = "returned" => gguf'.result = "None"]_vars

C21_Witness ==
    /\ ReturnedDir
    /\ Len(gguf.downloaded_files) = 2
    /\ gguf.downloaded_files = <<"m-Q5_K-00001-of-00002.gguf", "m-Q5_K-00002-of-00002.gguf">>

(***************************************************************************)
(* C22                                                                     *)
(***************************************************************************)
\* how often x stands in the list l
Occurrences(l, x) == Cardinality({i \in DOMAIN l : l[i] = x})

\* extract_and_sort_versions has run in this call of select_nim_version
Extracted == nim.pc # "idle" /\ nim.pc # "call"

\* C22: the list extract_and_sort_versions returns holds exactly the input
\* tags other than 'latest', each as often as it came in; every tag that
\* parses as dot-separated integers stands before every tag that does not;
\* and the numeric tags run from the highest version to the lowest.
C22_NumericFirstHighestDown ==
    Extracted =>
        /\ \A t \in Tags :
              Occurrences(nim.versions, t) = IF t = "latest" THEN 0 ELSE Occurrences(nim.tags, t)
        /\ \A i, j \in DOMAIN nim.versions :
              (i < j /\ is_numeric(nim.versions[j])) => is_numeric(nim.versions[i])
        /\ \A i, j \in DOMAIN nim.versions :
              (i < j /\ is_numeric(nim.versions[i]) /\ is_numeric(nim.versions[j])) =>
                  ~list_less(version_parts(nim.versions[i]), version_parts(nim.versions[j]))

(***************************************************************************)
(* C23                                                                     *)
(***************************************************************************)
\* the listing holds a path whose final segment is exactly this basename
ListedExactly(required_file) ==
    \E i \in DOMAIN cfg.repo_files : basename(cfg.repo_files[i]) = required_file

\* C23: whenever the listing holds a path whose final segment is exactly a
\* required basename, the path resolved for that basename has exactly that
\* final segment; it is never a file of another name that only ends with it.
C23_ExactBasenamePreferred ==
    cfg.pc # "idle" =>
        \A required_file \in DOMAIN cfg.found_files :
            ListedExactly(required_file) =>
                basename(cfg.found_files[required_file]) = required_file

(***************************************************************************)
(* C24                                                                     *)
(***************************************************************************)
\* C24: whenever a directory is returned, the four required configuration
\* files config.json, tokenizer.json, tokenizer_config.json and
\* generation_config.json lie directly inside it, also when a required file
\* was found in the repository at a nested path.
C24_ReturnedDirHoldsConfigs ==
    (ReturnedDir /\ disk # NoDisk) =>
        \A i \in DOMAIN required_files : required_files[i] \in disk.final

(***************************************************************************)
(* C25                                                                     *)
(***************************************************************************)
\* the deploy section of run-gguf.py has taken the names out of the path
Recovered == run.pc = "deploy"

\* C25: the quantization tag and the model name run-gguf.py takes out of the
\* final model directory (the last '-'-separated piece of its base name, the
\* base name of its parent) are the tag and the model name download_gguf_files
\* built the directory from, for every owner and every selected key, the keys
\* whose tag is the unshortened key included.
C25_DeployRecoversTagAndName ==
    Recovered =>
        /\ run.quantization = gguf.quantization
        /\ run.base_model_name = gguf.model_name

(***************************************************************************)
(* C26                                                                     *)
(***************************************************************************)
\* C26: no menu is entered with an option set in which no input can succeed:
\* download_gguf_files is at display_gguf_menu only with a non-empty group
\* mapping, select_nim_version is at display_versions_menu only with a
\* non-empty version list, and display_local_gguf_menu with an empty mapping
\* returns 'download_new' at once, never reaching its prompt.
C26_NoMenuOnEmptyOptions ==
    /\ gguf.pc = "menu" => gguf.gguf_groups # <<>>
    /\ nim.pc = "menu" =>
          /\ nim.versions # <<>>
          /\ menu.kind = "versions" /\ menu.versions = nim.versions
    /\ (menu.pc # "idle" /\ menu.kind = "versions") => menu.versions # <<>>
    /\ (menu.pc # "idle" /\ menu.kind = "local" /\ menu.local_models = <<>>) =>
          /\ menu.pc \in {"call", "returned"}
          /\ menu.event = "" /\ menu.displayed = <<>>
          /\ menu.pc = "returned" => menu.result = "download_new"

\* a tag list of 'latest' alone ended the process before the menu
C26_Witness ==
    /\ nim.pc = "exited" /\ nim.exit_status = 1
    /\ nim.tags = <<"latest">>
    /\ menu.pc = "idle"

====
